---- MODULE Spec2Model ----
(***************************************************************************)
(* Model of tensorflow/lite/micro/tools/generate_cc_arrays.py.             *)
(*                                                                         *)
(* Text is a sequence of tokens.  A token is one character ("a", "/",     *)
(* ".", ",", a digit) or one of the fixed words the program tests for or   *)
(* emits ("tflite", "bmp", "wav", "cc", "h", "_model_data", ...).          *)
(***************************************************************************)
EXTENDS Integers, Sequences, FiniteSets, TLC

\* ---------------------------------------------------------------- bounds
MaxInputs == 3

MaxPathLen == 3

MaxFrames == 1

\* ------------------------------------------------------- string helpers
\* str.endswith(suf)
EndsWith(s, suf) ==
  /\ Len(s) >= Len(suf)
  /\ SubSeq(s, Len(s) - Len(suf) + 1, Len(s)) = suf

\* str.startswith(pre)
StartsWith(s, pre) ==
  /\ Len(s) >= Len(pre)
  /\ SubSeq(s, 1, Len(pre)) = pre

\* positions at which the token c occurs in s
Occ(s, c) == {i \in 1..Len(s) : s[i] = c}

MinOf(S) == CHOOSE i \in S : \A j \in S : i <= j

MaxOf(S) == CHOOSE i \in S : \A j \in S : i >= j

\* s.split(c)[0]
SplitFirst(s, c) ==
  IF Occ(s, c) = {} THEN s ELSE SubSeq(s, 1, MinOf(Occ(s, c)) - 1)

\* s.split(c)[-1]
SplitLast(s, c) ==
  IF Occ(s, c) = {} THEN s ELSE SubSeq(s, MaxOf(Occ(s, c)) + 1, Len(s))

\* s.split('genfiles/')[-1]
SplitGenfiles(s) ==
  LET M == {i \in 1..(Len(s) - 1) : s[i] = "genfiles" /\ s[i + 1] = "/"}
  IN  IF M = {} THEN s ELSE SubSeq(s, MaxOf(M) + 2, Len(s))

\* s.replace('.cc', '.h')
ReplaceCcH(s) ==
  [i \in 1..Len(s) |->
     IF s[i] = "cc" /\ i > 1 /\ s[i - 1] = "." THEN "h" ELSE s[i]]

\* s.rstrip('/')
RECURSIVE RStripSlash(_)
RStripSlash(s) ==
  IF s # <<>> /\ s[Len(s)] = "/" THEN RStripSlash(SubSeq(s, 1, Len(s) - 1))
  ELSE s

\* os.path.dirname(p)
Dirname(p) ==
  LET head == IF Occ(p, "/") = {} THEN <<>>
              ELSE SubSeq(p, 1, MaxOf(Occ(p, "/")))
  IN  IF head # <<>> /\ (\E i \in 1..Len(head) : head[i] # "/")
      THEN RStripSlash(head) ELSE head

\* os.path.join(a, b)
PathJoin(a, b) ==
  IF StartsWith(b, <<"/">>) THEN b
  ELSE IF a = <<>> \/ EndsWith(a, <<"/">>) THEN a \o b
  ELSE a \o <<"/">> \o b

\* Dedup without the deduplication: list(args.inputs)
DedupKeepAll(xs) == xs

\* list(dict.fromkeys(xs))
RECURSIVE Dedup(_)
Dedup(xs) ==
  IF xs = <<>> THEN <<>>
  ELSE LET init == SubSeq(xs, 1, Len(xs) - 1)
           last == xs[Len(xs)]
       IN  IF \E i \in 1..Len(init) : init[i] = last
           THEN Dedup(init) ELSE Append(Dedup(init), last)

\* ---------------------------------------------------- number rendering
HexDigit(n) ==
  <<"0", "1", "2", "3", "4", "5", "6", "7",
    "8", "9", "a", "b", "c", "d", "e", "f">>[n + 1]

\* bytes.hex() of one byte: always two digits
ByteHex(b) == <<HexDigit(b \div 16), HexDigit(b % 16)>>

\* hex(b) of a byte: "0x" and no leading zero
HexLit(b) ==
  IF b < 16 THEN <<"0x", HexDigit(b)>>
  ELSE <<"0x", HexDigit(b \div 16), HexDigit(b % 16)>>

RECURSIVE NatStr(_)
NatStr(n) ==
  IF n < 10 THEN <<HexDigit(n)>>
  ELSE Append(NatStr(n \div 10), HexDigit(n % 10))

RECURSIVE NegDigits(_)
\* the decimal digits of -n for n <= 0 (computed without negating n)
NegDigits(n) ==
  IF n > -10 THEN <<HexDigit(0 - n)>>
  ELSE LET r == (10 - (n % 10)) % 10
       IN  Append(NegDigits((n + r) \div 10), HexDigit(r))

\* str(n) of an int
IntStr(n) == IF n < 0 THEN <<"-">> \o NegDigits(n) ELSE NatStr(n)

RECURSIVE FromBytesLESigned(_)
\* int.from_bytes(bs, byteorder='little', signed=True): two's complement,
\* the sign taken from the last (most significant) byte; b'' gives 0
FromBytesLESigned(bs) ==
  IF bs = <<>> THEN 0
  ELSE IF Len(bs) = 1 THEN (IF bs[1] >= 128 THEN bs[1] - 256 ELSE bs[1])
  ELSE bs[1] + 256 * FromBytesLESigned(Tail(bs))

\* ------------------------------------------------------ generate_array
RECURSIVE RenderTflite(_)
\* the while loop of the .tflite branch: '0x' + byte.hex() + ','
RenderTflite(bytes) ==
  IF bytes = <<>> THEN <<>>
  ELSE <<"0x">> \o ByteHex(bytes[1]) \o <<",">> \o RenderTflite(Tail(bytes))

RECURSIVE RenderBmp(_)
\* the for loop of the .bmp branch: hex(byte) + ','
RenderBmp(bytes) ==
  IF bytes = <<>> THEN <<>>
  ELSE HexLit(bytes[1]) \o <<",">> \o RenderBmp(Tail(bytes))

\* wav_file.readframes(1) for the i-th frame (empty once the data ran out)
ReadFrame(wav, i) == IF i <= Len(wav.frames) THEN wav.frames[i] ELSE <<>>

\* the integer the .wav branch renders for the i-th frame
WavValue(wav, i) == FromBytesLESigned(ReadFrame(wav, i))

RECURSIVE RenderWavFrom(_, _)
\* the for loop of the .wav branch: str(int.from_bytes(frame, ...)) + ','
RenderWavFrom(wav, i) ==
  IF i > wav.nframes THEN <<>>
  ELSE IntStr(WavValue(wav, i)) \o <<",">> \o RenderWavFrom(wav, i + 1)

\* generate_array(input_fname); data is what the file holds on disk
generate_array(input_fname, data) ==
  IF EndsWith(input_fname, <<".", "tflite">>)
  THEN [err |-> "none", size |-> Len(data.bytes),
        out |-> RenderTflite(data.bytes)]
  ELSE IF EndsWith(input_fname, <<".", "bmp">>)
  THEN [err |-> "none", size |-> Len(data.pixels),
        out |-> RenderBmp(data.pixels)]
  ELSE IF EndsWith(input_fname, <<".", "wav">>)
  THEN [err |-> "none", size |-> data.wav.nframes,
        out |-> RenderWavFrom(data.wav, 1)]
  ELSE [err |-> "UnsupportedFormat", size |-> 0, out |-> <<>>]

\* ------------------------------------------------------ get_array_name
\* the value of a call that falls off the end of the function (None)
NoneName == [isNone |-> TRUE, name |-> <<>>, type |-> "", err |-> "none"]

get_array_name(input_fname) ==
  LET base_array_name ==
        <<"g_">> \o SplitLast(SplitFirst(input_fname, "."), "/")
  IN  IF EndsWith(input_fname, <<".", "tflite">>)
      THEN [isNone |-> FALSE, name |-> base_array_name \o <<"_model_data">>,
            type |-> "unsigned char", err |-> "none"]
      ELSE IF EndsWith(input_fname, <<".", "bmp">>)
      THEN [isNone |-> FALSE, name |-> base_array_name \o <<"_image_data">>,
            type |-> "unsigned char", err |-> "none"]
      ELSE IF EndsWith(input_fname, <<".", "wav">>)
      THEN [isNone |-> FALSE, name |-> base_array_name \o <<"_audio_data">>,
            type |-> "short", err |-> "none"]
      ELSE NoneName

\* ------------------------------------------------------- generate_file
\* the text generate_file writes, statement by statement
CcText(out_fname, array_name, array_type, array_contents, size) ==
  << [stmt |-> "include", path |-> ReplaceCcH(SplitGenfiles(out_fname))],
     [stmt |-> "array_def", type |-> array_type, name |-> array_name,
      contents |-> array_contents],
     [stmt |-> "size_def", name |-> array_name, size |-> size] >>

\* HdrText with the element type of the byte arrays written for every kind
HdrTextUnsignedChar(array_name, array_type) ==
  << [stmt |-> "extern_array", type |-> "unsigned char", name |-> array_name],
     [stmt |-> "extern_size", name |-> array_name] >>

HdrText(array_name, array_type) ==
  << [stmt |-> "extern_array", type |-> array_type, name |-> array_name],
     [stmt |-> "extern_size", name |-> array_name] >>

\* os.makedirs(os.path.dirname(out_fname), exist_ok=True) raises
\* FileNotFoundError for the empty directory name
MakedirsFails(out_fname) == Dirname(out_fname) = <<>>

\* generate_file(out_fname, ...) without faults of the file system:
\* the error it ends with, whether makedirs ran, and the text it wrote
generate_file(out_fname, array_name, array_type, array_contents, size) ==
  IF MakedirsFails(out_fname)
  THEN [err |-> "MakedirsError", mkdir |-> FALSE, wrote |-> FALSE,
        text |-> <<>>]
  ELSE IF EndsWith(out_fname, <<".", "cc">>)
  THEN [err |-> "none", mkdir |-> TRUE, wrote |-> TRUE,
        text |-> CcText(out_fname, array_name, array_type,
                        array_contents, size)]
  ELSE IF EndsWith(out_fname, <<".", "h">>)
  THEN [err |-> "none", mkdir |-> TRUE, wrote |-> TRUE,
        text |-> HdrText(array_name, array_type)]
  ELSE [err |-> "InvalidOutputExtension", mkdir |-> TRUE, wrote |-> FALSE,
        text |-> <<>>]

\* ------------------------------------------------------------- state
VARIABLES
  output,             \* args.output
  inputs,             \* args.inputs
  pc,                 \* position in main()
  err,                \* the exception main() ended with, "none" if none
  uniq,               \* list(dict.fromkeys(args.inputs))
  idx,                \* position of input_file in uniq (1-based)
  output_base_fname,  \* local of the loop body
  ga,                 \* result of generate_array: size, cc_array
  an,                 \* result of get_array_name
  files,              \* the output files on disk: path -> text
  dirs,               \* directories created by os.makedirs
  printed,            \* lines printed to standard output
  reads,              \* input paths opened for reading, in order
  writes,             \* output files written, in order, with the iteration
  arg,                \* argument of a library call (library specifications)
  ret                 \* result of a library call

vars == <<output, inputs, pc, err, uniq, idx, output_base_fname, ga, an,
          files, dirs, printed, reads, writes, arg, ret>>

mainVars == <<output, inputs, pc, err, uniq, idx, output_base_fname, ga, an,
              files, dirs, printed, reads, writes>>

\* ------------------------------------------------------------ inputs
\* input paths of the runs explored
InputPaths ==
  { <<"a", ".", "tflite">>,
    <<"a", ".", "x", ".", "tflite">>,
    <<"d", "/", "a", ".", "bmp">>,
    <<"/", "d", "/", "a", ".", "wav">>,
    <<"a", ".", "png">> }

\* output targets of the runs explored
OutputTargets ==
  { <<"out">>,
    <<"genfiles", "/", "out", "/">>,
    <<"custom", ".", "h">>,
    <<"out", "/", "x", ".", "cc">>,
    <<"out", "/", "x", ".", "h">> }

\* what every input file holds on disk in the runs explored
Fixture ==
  [bytes  |-> <<1, 2>>,
   pixels |-> <<0, 255>>,
   wav    |-> [nframes |-> 3,
               frames |-> << <<255, 255>>, <<0, 0>>, <<255, 127>> >>]]

NoArray == [err |-> "none", size |-> 0, out |-> <<>>]

\* the condition of line 109
IsSingleFile(out) ==
  EndsWith(out, <<".", "cc">>) \/ EndsWith(out, <<".", "h">>)

MainInit ==
  /\ output \in OutputTargets
  /\ inputs \in UNION {[1..n -> InputPaths] : n \in 1..MaxInputs}
  /\ pc = "start"
  /\ err = "none"
  /\ uniq = <<>>
  /\ idx = 0
  /\ output_base_fname = <<>>
  /\ ga = NoArray
  /\ an = NoneName
  /\ files = <<>>
  /\ dirs = {}
  /\ printed = <<>>
  /\ reads = <<>>
  /\ writes = <<>>

Init == MainInit /\ arg = <<>> /\ ret = <<>>

\* main() ends with the exception e
Raise(e) == pc' = "done" /\ err' = e

\* ------------------------------------------------- main, single-file mode
\* SingleAssert without the assertion (as under python -O)
SingleAssertSkipped ==
  /\ pc = "start"
  /\ IsSingleFile(output)
  /\ pc' = "s_read"
  /\ UNCHANGED <<output, inputs, err, uniq, idx, output_base_fname, ga, an,
                 files, dirs, printed, reads, writes, arg, ret>>

\* line 110: assert len(args.inputs) == 1
SingleAssert ==
  /\ pc = "start"
  /\ IsSingleFile(output)
  /\ IF Len(inputs) = 1
     THEN pc' = "s_read" /\ err' = err
     ELSE Raise("AssertionError")
  /\ UNCHANGED <<output, inputs, uniq, idx, output_base_fname, ga, an,
                 files, dirs, printed, reads, writes, arg, ret>>

\* the call generate_array(f) of main: the extension is tested first, then
\* the file is opened, which the file system may refuse
CallGenerateArray(f, next) ==
  LET r == generate_array(f, Fixture)
  IN  IF r.err # "none"
      THEN Raise(r.err) /\ UNCHANGED <<ga, reads>>
      ELSE \E readable \in BOOLEAN :
             /\ reads' = Append(reads, f)
             /\ IF readable
                THEN ga' = r /\ pc' = next /\ err' = err
                ELSE Raise("ReadError") /\ ga' = ga

\* line 111
SingleRead ==
  /\ pc = "s_read"
  /\ CallGenerateArray(inputs[1], "s_name")
  /\ UNCHANGED <<output, inputs, uniq, idx, output_base_fname, an,
                 files, dirs, printed, writes, arg, ret>>

\* the call get_array_name(f) of main and the unpacking of its result
CallGetArrayName(f, next) ==
  LET r == get_array_name(f)
  IN  IF r.isNone
      THEN Raise("TypeError") /\ an' = an
      ELSE an' = r /\ pc' = next /\ err' = err

\* line 112
SingleName ==
  /\ pc = "s_name"
  /\ CallGetArrayName(inputs[1], "s_write")
  /\ UNCHANGED <<output, inputs, uniq, idx, output_base_fname, ga,
                 files, dirs, printed, reads, writes, arg, ret>>

\* files with the text t stored at path p
Store(fs, p, t) ==
  [q \in (DOMAIN fs) \cup {p} |-> IF q = p THEN t ELSE fs[q]]

\* the call generate_file(out_fname, ...) of main in iteration it; open()
\* for writing may be refused by the file system
CallGenerateFile(out_fname, it, next) ==
  LET r == generate_file(out_fname, an.name, an.type, ga.out, ga.size)
  IN  /\ dirs' = IF r.mkdir THEN dirs \cup {Dirname(out_fname)} ELSE dirs
      /\ IF ~r.wrote
         THEN Raise(r.err) /\ UNCHANGED <<files, writes>>
         ELSE \E writable \in BOOLEAN :
                IF writable
                THEN /\ files' = Store(files, out_fname, r.text)
                     /\ writes' = Append(writes,
                                         [path |-> out_fname, iter |-> it])
                     /\ pc' = next /\ err' = err
                ELSE Raise("WriteError") /\ UNCHANGED <<files, writes>>

\* lines 113-114
SingleWrite ==
  /\ pc = "s_write"
  /\ CallGenerateFile(output, 1, "done")
  /\ UNCHANGED <<output, inputs, uniq, idx, output_base_fname, ga, an,
                 printed, reads, arg, ret>>

\* --------------------------------------------------- main, directory mode
\* OutputBase without the else branch that raises
OutputBaseNoRaise(out, input_file) ==
  LET joined == PathJoin(out, SplitFirst(input_file, "."))
  IN  IF EndsWith(input_file, <<".", "tflite">>)
      THEN [err |-> "none", base |-> joined \o <<"_model_data">>]
      ELSE IF EndsWith(input_file, <<".", "bmp">>)
      THEN [err |-> "none", base |-> joined \o <<"_image_data">>]
      ELSE IF EndsWith(input_file, <<".", "wav">>)
      THEN [err |-> "none", base |-> joined \o <<"_audio_data">>]
      ELSE [err |-> "none", base |-> joined]

\* OutputBase joining the output directory with the base name of the input
\* (its directories dropped) instead of input_file.split('.')[0]
OutputBaseBasename(out, input_file) ==
  LET joined == PathJoin(out, SplitLast(SplitFirst(input_file, "."), "/"))
  IN  IF EndsWith(input_file, <<".", "tflite">>)
      THEN [err |-> "none", base |-> joined \o <<"_model_data">>]
      ELSE IF EndsWith(input_file, <<".", "bmp">>)
      THEN [err |-> "none", base |-> joined \o <<"_image_data">>]
      ELSE IF EndsWith(input_file, <<".", "wav">>)
      THEN [err |-> "none", base |-> joined \o <<"_audio_data">>]
      ELSE [err |-> "UnsupportedFormat", base |-> joined]

\* lines 118-126: the output base name of one input, or the ValueError
OutputBase(out, input_file) ==
  LET joined == PathJoin(out, SplitFirst(input_file, "."))
  IN  IF EndsWith(input_file, <<".", "tflite">>)
      THEN [err |-> "none", base |-> joined \o <<"_model_data">>]
      ELSE IF EndsWith(input_file, <<".", "bmp">>)
      THEN [err |-> "none", base |-> joined \o <<"_image_data">>]
      ELSE IF EndsWith(input_file, <<".", "wav">>)
      THEN [err |-> "none", base |-> joined \o <<"_audio_data">>]
      ELSE [err |-> "UnsupportedFormat", base |-> joined]

\* line 128
CcName(base) == base \o <<".", "cc">>

\* line 131
HdrName(base) == base \o <<".", "h">>

\* line 117: the list the for loop iterates over
DirDedup ==
  /\ pc = "start"
  /\ ~IsSingleFile(output)
  /\ uniq' = Dedup(inputs)
  /\ idx' = 1
  /\ pc' = "d_next"
  /\ UNCHANGED <<output, inputs, err, output_base_fname, ga, an,
                 files, dirs, printed, reads, writes, arg, ret>>

\* lines 117-131: the loop ends, or the next input is classified and the
\* name of its .cc file is printed
DirBegin ==
  /\ pc = "d_next"
  /\ IF idx > Len(uniq)
     THEN /\ pc' = "done"
          /\ UNCHANGED <<err, output_base_fname, printed>>
     ELSE LET r == OutputBase(output, uniq[idx])
          IN  /\ output_base_fname' = r.base
              /\ IF r.err # "none"
                 THEN Raise(r.err) /\ printed' = printed
                 ELSE /\ printed' = Append(printed, CcName(r.base))
                      /\ pc' = "d_read"
                      /\ err' = err
  /\ UNCHANGED <<output, inputs, uniq, idx, ga, an,
                 files, dirs, reads, writes, arg, ret>>

\* line 132
DirRead ==
  /\ pc = "d_read"
  /\ CallGenerateArray(uniq[idx], "d_name")
  /\ UNCHANGED <<output, inputs, uniq, idx, output_base_fname, an,
                 files, dirs, printed, writes, arg, ret>>

\* line 133
DirName ==
  /\ pc = "d_name"
  /\ CallGetArrayName(uniq[idx], "d_cc")
  /\ UNCHANGED <<output, inputs, uniq, idx, output_base_fname, ga,
                 files, dirs, printed, reads, writes, arg, ret>>

\* lines 134-135
DirWriteCc ==
  /\ pc = "d_cc"
  /\ CallGenerateFile(CcName(output_base_fname), idx, "d_hdr")
  /\ UNCHANGED <<output, inputs, uniq, idx, output_base_fname, ga, an,
                 printed, reads, arg, ret>>

\* lines 136-137, and the step to the next input
DirWriteHdr ==
  /\ pc = "d_hdr"
  /\ CallGenerateFile(HdrName(output_base_fname), idx, "d_next")
  /\ idx' = IF pc' = "d_next" THEN idx + 1 ELSE idx
  /\ UNCHANGED <<output, inputs, uniq, output_base_fname, ga, an,
                 printed, reads, arg, ret>>

Next ==
  \/ SingleAssert
  \/ SingleRead
  \/ SingleName
  \/ SingleWrite
  \/ DirDedup
  \/ DirBegin
  \/ DirRead
  \/ DirName
  \/ DirWriteCc
  \/ DirWriteHdr

Spec == Init /\ [][Next]_vars

TypeOK ==
  /\ pc \in {"start", "s_read", "s_name", "s_write", "d_next", "d_read",
             "d_name", "d_cc", "d_hdr", "done"}
  /\ err \in {"none", "AssertionError", "UnsupportedFormat", "TypeError",
              "InvalidOutputExtension", "MakedirsError", "ReadError",
              "WriteError"}
  /\ (err # "none") => pc = "done"

\* ------------------------------------------- the functions called alone
\* main's variables while a function of the library is called on its own
LibIdle ==
  /\ output = <<>> /\ inputs = <<>> /\ pc = "lib" /\ err = "none"
  /\ uniq = <<>> /\ idx = 0 /\ output_base_fname = <<>>
  /\ ga = NoArray /\ an = NoneName /\ files = <<>> /\ dirs = {}
  /\ printed = <<>> /\ reads = <<>> /\ writes = <<>>

NotCalled == [called |-> FALSE]

PathTokens == {"a", "/", ".", "tflite", "bmp", "wav", "png"}

\* every path of at most MaxPathLen tokens
AllPaths == UNION {[1..n -> PathTokens] : n \in 1..MaxPathLen}

\* the extension is one of the three the program knows
Supported(p) ==
  \/ EndsWith(p, <<".", "tflite">>)
  \/ EndsWith(p, <<".", "bmp">>)
  \/ EndsWith(p, <<".", "wav">>)

NameInit == LibIdle /\ arg \in AllPaths /\ ret = NotCalled

\* one call get_array_name(arg); the function has no raise statement
ApplyGetArrayName ==
  /\ ret = NotCalled
  /\ ret' = [called |-> TRUE, raised |-> get_array_name(arg).err,
             value |-> get_array_name(arg)]
  /\ UNCHANGED <<mainVars, arg>>

NameNext == ApplyGetArrayName

SpecName == NameInit /\ [][NameNext]_vars

\* sample widths (bytes) and channel counts of the waveforms explored
SampWidths == {1, 2}

Channels == {1, 2}

\* byte values the frames are built from
ByteSamples == {0, 1, 128, 255}

\* the waveform files of sample width sw, ch channels and n frames, as the
\* wave module presents them: the declared frame count and, per frame,
\* sampwidth * nchannels raw bytes
WavFiles(sw, ch, n) ==
  [sampwidth : {sw}, nchannels : {ch}, nframes : {n},
   frames : [1..n -> [1..(sw * ch) -> ByteSamples]]]

WavInit ==
  /\ LibIdle
  /\ \E sw \in SampWidths, ch \in Channels, n \in 1..MaxFrames :
       arg \in WavFiles(sw, ch, n)
  /\ ret = NotCalled

WavPath == <<"sound", ".", "wav">>

\* one call generate_array on a .wav file holding arg, with the element
\* type get_array_name declares for it
ApplyGenerateArrayWav ==
  /\ ret = NotCalled
  /\ ret' = [called |-> TRUE,
             array |-> generate_array(WavPath, [wav |-> arg]),
             values |-> [i \in 1..arg.nframes |-> WavValue(arg, i)],
             type |-> get_array_name(WavPath).type]
  /\ UNCHANGED <<mainVars, arg>>

WavNext == ApplyGenerateArrayWav

SpecWav == WavInit /\ [][WavNext]_vars

\* ------------------------------------------------------------ properties
\* main() runs in directory mode
DirMode == pc # "lib" /\ ~IsSingleFile(output)

\* main() runs in single-file mode
SingleMode == pc # "lib" /\ IsSingleFile(output)

\* positions of args.inputs holding the first occurrence of a path
FirstPositions ==
  {i \in 1..Len(inputs) : \A j \in 1..(i - 1) : inputs[j] # inputs[i]}

\* the k-th distinct input path, in order of first occurrence
KthDistinct(k) ==
  inputs[CHOOSE i \in FirstPositions :
           Cardinality({j \in FirstPositions : j <= i}) = k]

NumDistinct == Cardinality(FirstPositions)

\* the writes of iteration k whose path ends in suf
WritesOf(k, suf) ==
  {i \in DOMAIN writes : writes[i].iter = k /\ EndsWith(writes[i].path, suf)}

\* C1: in directory mode each distinct input path is processed at most once
\* and in order of first occurrence: the k-th file read and the k-th path
\* printed belong to the k-th distinct input, every iteration writes at most
\* one .cc and one .h, and a run that ends without error has read, printed
\* and written one pair for exactly the distinct inputs.
C1_DedupFirstOccurrence ==
  DirMode =>
    /\ Len(reads) <= NumDistinct
    /\ Len(printed) <= NumDistinct
    /\ \A k \in 1..Len(reads) : reads[k] = KthDistinct(k)
    /\ \A k \in 1..Len(printed) :
         printed[k] = CcName(OutputBase(output, KthDistinct(k)).base)
    /\ \A k \in 1..Len(inputs) :
         /\ Cardinality(WritesOf(k, <<".", "cc">>)) <= 1
         /\ Cardinality(WritesOf(k, <<".", "h">>)) <= 1
    /\ (pc = "done" /\ err = "none") =>
         /\ Len(reads) = NumDistinct
         /\ Len(printed) = NumDistinct
         /\ \A k \in 1..NumDistinct :
              /\ Cardinality(WritesOf(k, <<".", "cc">>)) = 1
              /\ Cardinality(WritesOf(k, <<".", "h">>)) = 1

\* a finished run on inputs [a, b, a] that printed two paths
C1_Witness ==
  /\ DirMode /\ pc = "done" /\ err = "none"
  /\ Len(inputs) = 3 /\ inputs[1] = inputs[3] /\ inputs[1] # inputs[2]
  /\ Len(printed) = 2 /\ Len(writes) = 4

\* C2: no output file path is written by more than one loop iteration.
C2_NoPathWrittenTwice ==
  DirMode =>
    \A i, j \in DOMAIN writes :
      writes[i].path = writes[j].path => writes[i].iter = writes[j].iter

\* C3: single-file mode with a number of inputs other than 1 ends with the
\* assertion failure, and no input is read and no directory or file is
\* created at any point of the run.
C3_InputCountMismatch ==
  (SingleMode /\ Len(inputs) # 1) =>
    /\ pc \in {"start", "done"}
    /\ pc = "done" => err = "AssertionError"
    /\ reads = <<>>
    /\ DOMAIN files = {}
    /\ dirs = {}
    /\ writes = <<>>

\* single-file mode with two inputs has failed
C3_Witness ==
  /\ SingleMode /\ Len(inputs) = 2 /\ pc = "done" /\ err = "AssertionError"

\* C4 as stated: when a run fails with UnsupportedFormat, no output artifact
\* exists on disk, wherever the unsupported path stands in the input list.
C4_NoFileOnUnsupported ==
  err = "UnsupportedFormat" => DOMAIN files = {}

\* C4 as amended: a run ends with UnsupportedFormat when it reaches an input
\* with an unsupported extension, before anything is printed, read or written
\* for that input.  In single-file mode it is the only input and nothing was
\* created.  In directory mode the pairs of the earlier inputs are on disk,
\* and nothing was created only when the unsupported path is the first
\* distinct input.  A run that ends without error had supported inputs only.
C4_UnsupportedAbortsAtInput ==
  /\ (pc = "done" /\ err = "none" /\ pc # "lib") =>
       \A i \in 1..Len(inputs) : Supported(inputs[i])
  /\ (err = "UnsupportedFormat" /\ SingleMode) =>
       /\ Len(inputs) = 1
       /\ ~Supported(inputs[1])
       /\ reads = <<>> /\ DOMAIN files = {} /\ dirs = {} /\ printed = <<>>
  /\ (err = "UnsupportedFormat" /\ DirMode) =>
       /\ idx \in 1..Len(uniq)
       /\ ~Supported(uniq[idx])
       /\ \A k \in 1..(idx - 1) : Supported(uniq[k])
       /\ Len(printed) = idx - 1
       /\ Len(reads) = idx - 1
       /\ \A i \in DOMAIN reads : reads[i] # uniq[idx]
       /\ Len(writes) = 2 * (idx - 1)
       /\ \A i \in DOMAIN writes : writes[i].iter < idx
       /\ idx = 1 => (DOMAIN files = {} /\ dirs = {})

\* the unsupported path came second and the first input's pair is on disk
C4_Witness ==
  /\ DirMode /\ err = "UnsupportedFormat" /\ idx = 2
  /\ Cardinality(DOMAIN files) = 2

\* C5: single-file mode with one readable input of a supported kind, on a
\* file system that refuses no write, ends without error and has written
\* exactly the file at the output path.
C5_SingleFileCompletes ==
  (/\ SingleMode /\ pc = "done"
   /\ Len(inputs) = 1 /\ Supported(inputs[1])
   /\ err \notin {"ReadError", "WriteError"}) =>
    /\ err = "none"
    /\ DOMAIN files = {output}

\* C6: in directory mode, for every input whose iteration completed, the
\* .cc and the .h file are on disk and were written in that iteration, the
\* input was read exactly once, and the identifier and element type of the
\* definition equal those of the declaration.
C6_PairConsistent ==
  DirMode =>
    \A k \in 1..Len(uniq) :
      k < idx =>
        LET b  == OutputBase(output, uniq[k]).base
            cc == CcName(b)
            h  == HdrName(b)
        IN  /\ cc \in DOMAIN files /\ h \in DOMAIN files
            /\ \E i \in DOMAIN writes :
                 writes[i].path = cc /\ writes[i].iter = k
            /\ \E i \in DOMAIN writes :
                 writes[i].path = h /\ writes[i].iter = k
            /\ Cardinality({i \in DOMAIN reads : reads[i] = uniq[k]}) = 1
            /\ files[cc][2].stmt = "array_def"
            /\ files[h][1].stmt = "extern_array"
            /\ files[cc][2].name = files[h][1].name
            /\ files[cc][2].type = files[h][1].type
            /\ files[cc][3].name = files[h][2].name

\* a finished run that generated the pair of a waveform and of another input
C6_Witness ==
  /\ DirMode /\ pc = "done" /\ err = "none" /\ Len(uniq) >= 2
  /\ \E k \in 1..Len(uniq) : EndsWith(uniq[k], <<".", "wav">>)
  /\ Cardinality(DOMAIN files) >= 4

\* C7: get_array_name fails with UnsupportedFormat on every path whose
\* extension is none of .tflite, .bmp, .wav.
C7_DeriverRaises ==
  (pc = "lib" /\ ret.called /\ ~Supported(arg)) =>
    ret.raised = "UnsupportedFormat"

\* the path up to and including its last "/"
DirPart(s) ==
  IF Occ(s, "/") = {} THEN <<>> ELSE SubSeq(s, 1, MaxOf(Occ(s, "/")))

\* the output directory with a separator at its end
OutputDirSlash ==
  IF output = <<>> \/ EndsWith(output, <<"/">>) THEN output
  ELSE output \o <<"/">>

\* the file name of the definition of input p: its identifier less "g_"
CcFileName(p) == Tail(get_array_name(p).name) \o <<".", "cc">>

C9_PrintedWereWritten ==
  (DirMode /\ pc = "done") =>
    \A k \in 1..Len(printed) :
      \E i \in DOMAIN writes : writes[i].path = printed[k]

\* C10: every value rendered for a waveform lies in the range of the
\* declared element type short.
C10_WavValuesFitShort ==
  (pc = "lib" /\ ret.called /\ ret.type = "short") =>
    \A i \in DOMAIN ret.values : ret.values[i] \in -32768..32767

====
